---- MODULE Spec2Model ----
(***************************************************************************)
(* Model of fft_toy.py: the interactive Fourier-transform editor.         *)
(*                                                                         *)
(* Representation of the numeric data:                                     *)
(*  - a complex spectrum entry is kept in polar form                       *)
(*      [nz |-> is it different from 0+0j,                                 *)
(*       lm |-> log1p(|z| + epsilon) on a fixed-point grid (LogOne = 1.0), *)
(*       ph |-> np.angle(z), in units of 1/(2*HueMax) of a turn, shifted   *)
(*              so that -pi is 0, 0 is HalfTurn and +pi is FullTurn];      *)
(*  - visualizations are arrays of 8-bit triples, as in the source;        *)
(*  - the spatial images are 8-bit arrays (1 x 2 pixels, 3 channels); the  *)
(*    reconstruction is kept as the spectrum it was inverse-transformed    *)
(*    from.                                                                *)
(***************************************************************************)
EXTENDS Integers, Sequences, FiniteSets, TLC

VARIABLES
    current_spatial_image,        \* self.current_spatial_image
    resulting_spatial_image,      \* self.resulting_spatial_image
    frequency_image,              \* self.frequency_image      [pixel][c_bgr]
    magnitude_spectrum,           \* self.magnitude_spectrum   [pixel][c_bgr]
    global_log_mag_range,         \* self.global_log_mag_range <<min, max>>
    normalized_spectrum,          \* self.normalized_spectrum  [pixel][c_rgb]
    phase_vis,                    \* self.phase_vis_b/g/r      [c_bgr][pixel] = <<b,g,r>>
    display_normalized_spectrum,  \* self.display_normalized_spectrum
    display_phase_vis,            \* self.display_phase_vis_b/g/r
    lock,                         \* lock_b_check/lock_g_check/lock_r_check [c_bgr]
    stroke,                       \* the canvas whose DrawableCanvas.drawing is set, with
                                  \* its pen_color and last_image_point
    status,                       \* the message last shown in the status bar
    canvas_image,                 \* the canvases hold an image (DrawableCanvas.display_image)
    tools_enabled,                \* the actions update_tool_state enables
    drawing_enabled,              \* DrawableCanvas.drawing_enabled of the canvases that
                                  \* allow drawing (set together by toggle_drawing_mode)
    op,                           \* what the handler that ran last did
    budget                        \* strokes, filters and reloads still allowed by MaxOps

vars == <<current_spatial_image, resulting_spatial_image, frequency_image,
          magnitude_spectrum, global_log_mag_range, normalized_spectrum,
          phase_vis, display_normalized_spectrum, display_phase_vis, lock,
          stroke, status, canvas_image, tools_enabled, drawing_enabled, op, budget>>

-----------------------------------------------------------------------------
(* Bounds of the model *)

MaxOps == 2
MaxMoves == 1
LogOne == 100

(* Program constants *)

MaskTolerance == 10
BlackTolerance == 5
PenBlack == 5
HueMax == 179
MaxVal == 255
ValueFloor == 1

HalfTurn == HueMax
FullTurn == 2 * HueMax

None == <<>>
Channels == 0 .. 2
Shape == <<1, 2>>
Height == Shape[1]
Width == Shape[2]
Pixels == {<<r, c>> : r \in 0 .. Height - 1, c \in 0 .. Width - 1}

Abs(x) == IF x < 0 THEN -x ELSE x
Max2(a, b) == IF a > b THEN a ELSE b
Min2(a, b) == IF a < b THEN a ELSE b
Round(num, den) == (2 * num + den) \div (2 * den)

-----------------------------------------------------------------------------
(* cv2.cvtColor on 8-bit pixels *)

\* HSV -> BGR: tab = v, v(1-s), v(1-s*f), v(1-s*(1-f)) by 60-degree sector,
\* each channel rounded to 8 bits.
HSV2BGR(hsv) ==
    LET h == hsv[1]
        s == hsv[2]
        v == hsv[3]
        sector == (h \div 30) % 6
        f == h % 30
        den == MaxVal * 30
        t0 == v
        t1 == Round(v * (MaxVal - s), MaxVal)
        t2 == Round(v * (den - s * f), den)
        t3 == Round(v * (den - s * (30 - f)), den)
    IN  IF s = 0 THEN <<v, v, v>>
        ELSE CASE sector = 0 -> <<t1, t3, t0>>
               [] sector = 1 -> <<t1, t0, t2>>
               [] sector = 2 -> <<t3, t0, t1>>
               [] sector = 3 -> <<t0, t2, t1>>
               [] sector = 4 -> <<t0, t1, t3>>
               [] OTHER      -> <<t2, t1, t0>>

\* BGR -> HSV: the fixed-point tables sdiv_table and hdiv_table180 (shift 12).
BGR2HSV(bgr) ==
    LET b == bgr[1]
        g == bgr[2]
        r == bgr[3]
        v == Max2(b, Max2(g, r))
        vmin == Min2(b, Min2(g, r))
        diff == v - vmin
        sdiv == IF v = 0 THEN 0 ELSE Round(MaxVal * 4096, v)
        hdiv == IF diff = 0 THEN 0 ELSE Round(180 * 4096, 6 * diff)
        s == (diff * sdiv + 2048) \div 4096
        h0 == IF v = r THEN g - b
              ELSE IF v = g THEN b - r + 2 * diff
              ELSE r - g + 4 * diff
        h1 == (h0 * hdiv + 2048) \div 4096
        h == IF h1 < 0 THEN h1 + 180 ELSE h1
    IN  <<Min2(h, MaxVal), s, v>>

-----------------------------------------------------------------------------
(* Complex values *)

\* 0 + 0j
ComplexZero == [nz |-> FALSE, lm |-> 0, ph |-> HalfTurn]

\* np.abs / log1p(abs + epsilon) of an entry
LogMagOf(z) == IF z.nz THEN z.lm ELSE 0

\* np.angle of an entry
AngleOf(z) == z.ph

\* magnitude * np.exp(1j * phase) for a magnitude > 0 given by its log
Polar(logmag, phase) == [nz |-> TRUE, lm |-> logmag, ph |-> phase]

\* 0.0 * np.exp(1j * phase): a zero whose signs, hence angle, come from the
\* quadrant of phase (-0 + 0j in the second quadrant, angle pi; else angle 0)
ZeroTimesExp(phase) ==
    [nz |-> FALSE, lm |-> 0,
     ph |-> IF 4 * phase > 3 * FullTurn THEN FullTurn ELSE HalfTurn]

\* abs(z) * np.exp(1j * phase)
WithPhase(z, phase) ==
    IF z.nz THEN Polar(z.lm, phase) ELSE ZeroTimesExp(phase)

-----------------------------------------------------------------------------
(* Input images and the forward transform *)

\* A 1 x 2 image from its two pixels, each <<b, g, r>>
Image(left, right) ==
    [p \in Pixels |-> [c \in Channels |-> IF p[2] = 0 THEN left[c + 1] ELSE right[c + 1]]]

ImgPhoto == Image(<<105, 60, 194>>, <<95, 71, 206>>)
ImgSolid == Image(<<128, 128, 128>>, <<128, 128, 128>>)
Images == {ImgPhoto, ImgSolid}

\* Image files: a colour file holds <<b, g, r>> pixels, a grey file one sample
\* per pixel, and a corrupt file nothing a decoder accepts
FilePhoto == [kind |-> "color", pixels |-> ImgPhoto]
FileSolid == [kind |-> "color", pixels |-> ImgSolid]
FileGray == [kind |-> "gray", pixels |-> [p \in Pixels |-> 128]]
FileCorrupt == [kind |-> "corrupt", pixels |-> None]
ColorFiles == {FilePhoto, FileSolid}
Files == ColorFiles \cup {FileGray, FileCorrupt}

\* variant: a grey file is not decoded
imread_color_only(file) ==
    IF file.kind = "color" THEN file.pixels ELSE None

\* cv2.imread / cv2.imdecode with IMREAD_COLOR: always a 3-channel BGR array
\* (a grey sample is repeated in the three channels), or None
imread(file) ==
    CASE file.kind = "color" -> file.pixels
      [] file.kind = "gray" -> [p \in Pixels |-> [c \in Channels |-> file.pixels[p]]]
      [] file.kind = "corrupt" -> None

\* The step of a handler that fails, if one does: the body of
\* compute_frequency_domain ("fft"), the allocation in inverse_transform
\* ("ifft"), the copy of the spectrum a handler works on ("copy"), the body of
\* _compute_visualizations_from_frequency_data ("vis")
Faults == {"fft", "ifft", "copy", "vis"}

\* 100 * np.log1p(m + 1e-9), rounded, for m = 0 .. 510: entry m + 1
Log1pTable ==
    <<
       0, 69, 110, 139, 161, 179, 195, 208, 220, 230, 240, 248, 256, 264, 271, 277,
       283, 289, 294, 300, 304, 309, 314, 318, 322, 326, 330, 333, 337, 340, 343, 347,
       350, 353, 356, 358, 361, 364, 366, 369, 371, 374, 376, 378, 381, 383, 385, 387,
       389, 391, 393, 395, 397, 399, 401, 403, 404, 406, 408, 409, 411, 413, 414, 416,
       417, 419, 420, 422, 423, 425, 426, 428, 429, 430, 432, 433, 434, 436, 437, 438,
       439, 441, 442, 443, 444, 445, 447, 448, 449, 450, 451, 452, 453, 454, 455, 456,
       457, 458, 460, 461, 462, 462, 463, 464, 465, 466, 467, 468, 469, 470, 471, 472,
       473, 474, 474, 475, 476, 477, 478, 479, 480, 480, 481, 482, 483, 484, 484, 485,
       486, 487, 488, 488, 489, 490, 491, 491, 492, 493, 493, 494, 495, 496, 496, 497,
       498, 498, 499, 500, 500, 501, 502, 502, 503, 504, 504, 505, 506, 506, 507, 508,
       508, 509, 509, 510, 511, 511, 512, 512, 513, 514, 514, 515, 515, 516, 516, 517,
       518, 518, 519, 519, 520, 520, 521, 521, 522, 523, 523, 524, 524, 525, 525, 526,
       526, 527, 527, 528, 528, 529, 529, 530, 530, 531, 531, 532, 532, 533, 533, 534,
       534, 535, 535, 536, 536, 537, 537, 538, 538, 538, 539, 539, 540, 540, 541, 541,
       542, 542, 542, 543, 543, 544, 544, 545, 545, 546, 546, 546, 547, 547, 548, 548,
       548, 549, 549, 550, 550, 551, 551, 551, 552, 552, 553, 553, 553, 554, 554, 555,
       555, 555, 556, 556, 556, 557, 557, 558, 558, 558, 559, 559, 559, 560, 560, 561,
       561, 561, 562, 562, 562, 563, 563, 563, 564, 564, 565, 565, 565, 566, 566, 566,
       567, 567, 567, 568, 568, 568, 569, 569, 569, 570, 570, 570, 571, 571, 571, 572,
       572, 572, 573, 573, 573, 574, 574, 574, 575, 575, 575, 576, 576, 576, 577, 577,
       577, 577, 578, 578, 578, 579, 579, 579, 580, 580, 580, 581, 581, 581, 581, 582,
       582, 582, 583, 583, 583, 583, 584, 584, 584, 585, 585, 585, 586, 586, 586, 586,
       587, 587, 587, 587, 588, 588, 588, 589, 589, 589, 589, 590, 590, 590, 591, 591,
       591, 591, 592, 592, 592, 592, 593, 593, 593, 593, 594, 594, 594, 595, 595, 595,
       595, 596, 596, 596, 596, 597, 597, 597, 597, 598, 598, 598, 598, 599, 599, 599,
       599, 600, 600, 600, 600, 601, 601, 601, 601, 602, 602, 602, 602, 603, 603, 603,
       603, 604, 604, 604, 604, 605, 605, 605, 605, 605, 606, 606, 606, 606, 607, 607,
       607, 607, 608, 608, 608, 608, 608, 609, 609, 609, 609, 610, 610, 610, 610, 610,
       611, 611, 611, 611, 612, 612, 612, 612, 612, 613, 613, 613, 613, 614, 614, 614,
       614, 614, 615, 615, 615, 615, 615, 616, 616, 616, 616, 617, 617, 617, 617, 617,
       618, 618, 618, 618, 618, 619, 619, 619, 619, 619, 620, 620, 620, 620, 620, 621,
       621, 621, 621, 621, 622, 622, 622, 622, 622, 623, 623, 623, 623, 623, 624
    >>

\* np.log1p(m + 1e-9) on the grid, for the magnitude m of a coefficient of a
\* 1 x 2 channel of 8-bit samples
Log1pGrid(m) == Log1pTable[m + 1]

\* a real DFT coefficient x as a complex value (imaginary part +0)
RealValue(x) ==
    [nz |-> x # 0, lm |-> Log1pGrid(Abs(x)), ph |-> IF x < 0 THEN FullTurn ELSE HalfTurn]

\* np.fft.fftshift(np.fft.fft2(channel)) of a 1 x 2 channel <<a, b>>:
\* the coefficient a - b at column 0 and the DC coefficient a + b at column 1
ForwardTransform(img) ==
    [p \in Pixels |-> [c \in Channels |->
        LET a == img[<<0, 0>>][c]
            b == img[<<0, 1>>][c]
        IN  RealValue(IF p[2] = Width \div 2 THEN a + b ELSE a - b)]]

\* inverse_transform: the 8-bit image |ifft2(ifftshift(f))| clipped and
\* truncated, kept as the spectrum it is computed from; None when it fails
inverse_transform(freq, fault) ==
    IF fault = "ifft" THEN None ELSE [inverse_of |-> freq]

-----------------------------------------------------------------------------
(* Visual encodings *)

map_bgr_to_rgb_idx(c) == 2 - c
map_rgb_to_bgr_idx(c) == 2 - c

SetMin(S) == CHOOSE x \in S : \A y \in S : x <= y
SetMax(S) == CHOOSE x \in S : \A y \in S : x >= y

\* normalize_for_display with explicit min_val and max_val
normalize_for_display(v, min_val, max_val) ==
    LET range_val == max_val - min_val
        clipped == Max2(min_val, Min2(max_val, v))
    IN  IF range_val < 1 THEN 0
        ELSE ((clipped - min_val) * MaxVal) \div range_val

\* log1p(abs + epsilon) of every entry
LogMagnitude(freq) ==
    [p \in Pixels |-> [c \in Channels |-> LogMagOf(freq[p][c])]]

\* variant: a collapsed range is kept as it is
GlobalLogRange_unwidened(ms) ==
    LET all == {ms[p][c] : p \in Pixels, c \in Channels}
    IN  <<SetMin(all), SetMax(all)>>

\* variant: the range is always one unit wide
GlobalLogRange_unit_width(ms) ==
    LET all == {ms[p][c] : p \in Pixels, c \in Channels}
    IN  <<SetMin(all), SetMin(all) + LogOne>>

\* global min/max over all three channels, widened to 1.0 when it collapses
GlobalLogRange(ms) ==
    LET all == {ms[p][c] : p \in Pixels, c \in Channels}
        lo == SetMin(all)
        hi == SetMax(all)
    IN  IF hi - lo < 1 THEN <<lo, lo + LogOne>> ELSE <<lo, hi>>

\* the RGB magnitude visualization
NormalizedSpectrum(ms, range) ==
    [p \in Pixels |-> [c_rgb \in Channels |->
        normalize_for_display(ms[p][map_rgb_to_bgr_idx(c_rgb)], range[1], range[2])]]

\* hue = ((phase + pi) / (2 pi)) * 179, truncated to uint8
HueOf(ph) == ph \div 2

\* (hue / 179) * 2 pi - pi
PhaseOfHue(hue) == 2 * hue

\* variant: the value is not clamped
PhaseVisOf_unclamped(freq, ms, range, c_bgr) ==
    [p \in Pixels |->
        HSV2BGR(<<HueOf(AngleOf(freq[p][c_bgr])), MaxVal,
                  normalize_for_display(ms[p][c_bgr], range[1], range[2])>>)]

\* the phase visualization of channel c_bgr
PhaseVisOf(freq, ms, range, c_bgr) ==
    [p \in Pixels |->
        HSV2BGR(<<HueOf(AngleOf(freq[p][c_bgr])), MaxVal,
                  Max2(ValueFloor, normalize_for_display(ms[p][c_bgr], range[1], range[2]))>>)]

PhaseVis(freq, ms, range) ==
    [c_bgr \in Channels |-> PhaseVisOf(freq, ms, range, c_bgr)]

-----------------------------------------------------------------------------
(* Pens *)

\* a QColor: its RGB components and the hue QColor.getHsv() reports. The pen
\* of a canvas is the colour last given to choose_color, or the initial one
\* (black on the frequency canvas; red, of the same target hue as black, on
\* the phase canvases).
PenBlackColor == [r |-> 0, g |-> 0, b |-> 0, hsv_h |-> -1]
PenOrangeColor == [r |-> 245, g |-> 120, b |-> 40, hsv_h |-> 23]
Pens == {PenBlackColor, PenOrangeColor}

Canvases == {"freq", "phase_b", "phase_g", "phase_r"}
PhaseCanvases == Canvases \ {"freq"}
channel_index_bgr(canvas) ==
    CASE canvas = "phase_b" -> 0 [] canvas = "phase_g" -> 1 [] canvas = "phase_r" -> 2

\* no canvas is drawing
NoStroke == [canvas |-> "none"]

\* the data of the application, as a handler finds it
Snapshot ==
    [current_spatial_image |-> current_spatial_image,
     resulting_spatial_image |-> resulting_spatial_image,
     frequency_image |-> frequency_image,
     magnitude_spectrum |-> magnitude_spectrum,
     global_log_mag_range |-> global_log_mag_range,
     normalized_spectrum |-> normalized_spectrum,
     phase_vis |-> phase_vis,
     display_normalized_spectrum |-> display_normalized_spectrum,
     display_phase_vis |-> display_phase_vis]

\* the data a paint handler must leave alone
PaintSnapshot ==
    [Snapshot EXCEPT !.display_normalized_spectrum = None, !.display_phase_vis = None]

\* the record of a handler: its name, the canvas and pen of its stroke, the
\* pixels the stroke painted, the change mask and the locks read when a stroke
\* is finalized, the fraction given to a filter or the file given to a load,
\* the step that failed, and the data before the handler ran
Did(name) == [name |-> name, canvas |-> "none", pen_color |-> None, painted |-> {},
              mask |-> {}, locks |-> {}, arg |-> 0, fault |-> "none",
              before |-> Snapshot]

-----------------------------------------------------------------------------
(* State after construction *)

Init ==
    /\ current_spatial_image = None
    /\ resulting_spatial_image = None
    /\ frequency_image = None
    /\ magnitude_spectrum = None
    /\ global_log_mag_range = <<0, LogOne>>
    /\ normalized_spectrum = None
    /\ phase_vis = None
    /\ display_normalized_spectrum = None
    /\ display_phase_vis = None
    /\ lock = [c \in Channels |-> FALSE]
    /\ stroke = NoStroke
    /\ status = "Load a color image to begin."
    /\ canvas_image = FALSE
    /\ tools_enabled = FALSE
    /\ drawing_enabled = FALSE
    /\ op = [Did("init") EXCEPT !.before = None]
    /\ budget = MaxOps

\* compute_frequency_domain: the spectrum of current_spatial_image and every
\* baseline and display visualization, or no data at all when it fails
compute_frequency_domain(img, fault) ==
    LET freq == ForwardTransform(img)
        ms == LogMagnitude(freq)
        range == GlobalLogRange(ms)
    IN  IF fault = "fft"
        THEN /\ frequency_image' = None
             /\ magnitude_spectrum' = None
             /\ global_log_mag_range' = <<0, LogOne>>
             /\ normalized_spectrum' = None
             /\ phase_vis' = None
             /\ display_normalized_spectrum' = None
             /\ display_phase_vis' = None
        ELSE /\ frequency_image' = freq
             /\ magnitude_spectrum' = ms
             /\ global_log_mag_range' = range
             /\ normalized_spectrum' = NormalizedSpectrum(ms, range)
             /\ phase_vis' = PhaseVis(freq, ms, range)
             /\ display_normalized_spectrum' = NormalizedSpectrum(ms, range)
             /\ display_phase_vis' = PhaseVis(freq, ms, range)

\* variant: a spectrum that exists is kept
compute_and_invert_keeps_edits(img, fault) ==
    /\ fault \in {"none", "fft", "ifft"}
    /\ IF frequency_image # None /\ fault = "none"
       THEN UNCHANGED <<frequency_image, magnitude_spectrum, global_log_mag_range,
                        normalized_spectrum, phase_vis, display_normalized_spectrum,
                        display_phase_vis, resulting_spatial_image>>
       ELSE /\ compute_frequency_domain(img, fault)
            /\ resulting_spatial_image' =
                 IF fault = "fft" THEN resulting_spatial_image
                 ELSE inverse_transform(frequency_image', fault)

\* compute_frequency_domain, then inverse_transform of its spectrum unless
\* there is none
compute_and_invert(img, fault) ==
    /\ fault \in {"none", "fft", "ifft"}
    /\ compute_frequency_domain(img, fault)
    /\ resulting_spatial_image' =
         IF fault = "fft" THEN resulting_spatial_image
         ELSE inverse_transform(frequency_image', fault)

\* process_and_display: the canvases are cleared when a step fails
process_and_display(img, fault) ==
    /\ compute_and_invert(img, fault)
    /\ canvas_image' = (fault = "none")

\* load_image / load_random_image
load_image(file, fault) ==
    /\ stroke = NoStroke
    /\ current_spatial_image # None => budget > 0
    /\ budget' = IF current_spatial_image # None THEN budget - 1 ELSE budget
    /\ LET img_bgr == imread(file)
       IN  IF img_bgr = None
           THEN /\ fault = "none"
                /\ status' = "Error loading image"
                /\ tools_enabled' = FALSE
                /\ UNCHANGED <<current_spatial_image, resulting_spatial_image,
                               frequency_image, magnitude_spectrum, global_log_mag_range,
                               normalized_spectrum, phase_vis, display_normalized_spectrum,
                               display_phase_vis, canvas_image>>
           ELSE /\ current_spatial_image' = img_bgr
                /\ process_and_display(img_bgr, fault)
                /\ status' = "Loaded COLOR image"
                /\ tools_enabled' = TRUE
    /\ drawing_enabled' = IF imread(file) = None THEN drawing_enabled ELSE TRUE
    /\ op' = [Did("load_image") EXCEPT !.arg = file, !.fault = fault]
    /\ UNCHANGED <<lock, stroke>>

\* a click on one of the lock check boxes (while an operation that can read
\* the lock is still within the bound)
toggle_lock(c) ==
    /\ stroke = NoStroke
    /\ budget > 0
    /\ lock' = [lock EXCEPT ![c] = ~@]
    /\ op' = [Did("toggle_lock") EXCEPT !.before = None]
    /\ UNCHANGED <<current_spatial_image, resulting_spatial_image, frequency_image,
                   magnitude_spectrum, global_log_mag_range, normalized_spectrum,
                   phase_vis, display_normalized_spectrum, display_phase_vis,
                   stroke, status, canvas_image, tools_enabled, drawing_enabled, budget>>

-----------------------------------------------------------------------------
(* Rasterisation of paint events *)

RECURSIVE BresenhamFrom(_, _, _, _, _, _, _, _, _)
BresenhamFrom(x0, y0, x1, y1, dx, dy, sx, sy, err) ==
    IF x0 = x1 /\ y0 = y1 THEN <<(<<x0, y0>>)>>
    ELSE LET e2 == 2 * err
             stepx == e2 > -dy
             stepy == e2 < dx
             err1 == IF stepx THEN err - dy ELSE err
             err2 == IF stepy THEN err1 + dx ELSE err1
         IN  <<(<<x0, y0>>)>> \o
             BresenhamFrom(IF stepx THEN x0 + sx ELSE x0, IF stepy THEN y0 + sy ELSE y0,
                           x1, y1, dx, dy, sx, sy, err2)

\* variant: the loop ends before it yields the end point
bresenham_line_end_excluded(x0, y0, x1, y1) ==
    LET dx == Abs(x1 - x0)
        dy == Abs(y1 - y0)
        sx == IF x0 < x1 THEN 1 ELSE -1
        sy == IF y0 < y1 THEN 1 ELSE -1
        line == BresenhamFrom(x0, y0, x1, y1, dx, dy, sx, sy, dx - dy)
    IN  SubSeq(line, 1, Len(line) - 1)

\* bresenham_line: the sequence of <<x, y>> it yields
bresenham_line(x0, y0, x1, y1) ==
    LET dx == Abs(x1 - x0)
        dy == Abs(y1 - y0)
        sx == IF x0 < x1 THEN 1 ELSE -1
        sy == IF y0 < y1 THEN 1 ELSE -1
    IN  BresenhamFrom(x0, y0, x1, y1, dx, dy, sx, sy, dx - dy)

\* points are <<y, x>>, as the arrays are indexed
InBounds(y, x) == 0 <= y /\ y < Height /\ 0 <= x /\ x < Width

\* the pixels a thickness-1 line writes: the yielded points inside the image
ThinLinePixels(p1, p2) ==
    LET line == bresenham_line(p1[2], p1[1], p2[2], p2[1])
    IN  {<<line[i][2], line[i][1]>> : i \in {j \in 1 .. Len(line) : InBounds(line[j][2], line[j][1])}}

\* np.where(mask > 0) after cv2.circle(mask, p, radius, 255, thickness=-1)
CirclePixels(p, radius) ==
    {q \in Pixels : (q[1] - p[1]) * (q[1] - p[1]) + (q[2] - p[2]) * (q[2] - p[2]) <= radius * radius}

\* np.where(mask > 0) after cv2.line(mask, p1, p2, 255, thickness)
ThickLinePixels(p1, p2, thickness) ==
    LET line == bresenham_line(p1[2], p1[1], p2[2], p2[1])
    IN  UNION {CirclePixels(<<line[i][2], line[i][1]>>, thickness \div 2) : i \in 1 .. Len(line)}

PointPixels(p) == IF InBounds(p[1], p[2]) THEN {p} ELSE {}

LinePixels(p1, p2, thickness) ==
    IF thickness = 1 THEN ThinLinePixels(p1, p2) ELSE ThickLinePixels(p1, p2, thickness)

-----------------------------------------------------------------------------
(* Live drawing handlers *)

is_black_pen(color) == color.r < PenBlack /\ color.g < PenBlack /\ color.b < PenBlack

\* the pen component of RGB index c_rgb
PenComponent(color, c_rgb) ==
    CASE c_rgb = 0 -> color.r [] c_rgb = 1 -> color.g [] c_rgb = 2 -> color.b

\* variant: the lock looked up by the RGB index while painting
PaintLock_rgb_indexed(c_rgb) == lock[c_rgb]

\* the lock that gates RGB index c_rgb while painting
PaintLock(c_rgb) == lock[map_rgb_to_bgr_idx(c_rgb)]

\* target_r, target_g, target_b of one painted pixel
FreqTarget(underlying_rgb, color) ==
    [c_rgb \in Channels |->
        IF PaintLock(c_rgb) THEN underlying_rgb[c_rgb]
        ELSE IF is_black_pen(color) THEN 0
        ELSE PenComponent(color, c_rgb)]

\* variant: the working copy shares its array with the baseline
handle_freq_drawn_shared_array(pixels, color) ==
    /\ display_normalized_spectrum' =
         IF display_normalized_spectrum = None THEN None
         ELSE [p \in Pixels |->
                 IF p \in pixels THEN FreqTarget(display_normalized_spectrum[p], color)
                 ELSE display_normalized_spectrum[p]]
    /\ normalized_spectrum' = display_normalized_spectrum'
    /\ UNCHANGED <<display_phase_vis, phase_vis, frequency_image, magnitude_spectrum,
                   global_log_mag_range, resulting_spatial_image, current_spatial_image>>

\* handle_freq_point_drawn / handle_freq_line_drawn / handle_freq_circle_drawn
\* on the pixels the event covers
handle_freq_drawn(pixels, color) ==
    /\ display_normalized_spectrum' =
         IF display_normalized_spectrum = None THEN None
         ELSE [p \in Pixels |->
                 IF p \in pixels THEN FreqTarget(display_normalized_spectrum[p], color)
                 ELSE display_normalized_spectrum[p]]
    /\ UNCHANGED <<display_phase_vis, normalized_spectrum, phase_vis, frequency_image,
                   magnitude_spectrum, global_log_mag_range, resulting_spatial_image,
                   current_spatial_image>>

\* int(round(pen_hsv[0] / 2)), at most 179
target_hue(color) ==
    LET h == color.hsv_h
        k == (h - 1) \div 2
        rounded == IF h % 2 = 0 THEN h \div 2 ELSE IF k % 2 = 0 THEN k ELSE k + 1
    IN  IF rounded > HueMax THEN HueMax ELSE rounded

\* target_bgr of one pixel painted on the phase canvas of channel c_bgr
PhaseTarget(p, color, c_bgr) ==
    LET current_value_unclamped == display_normalized_spectrum[p][map_bgr_to_rgb_idx(c_bgr)]
        current_value == Max2(ValueFloor, current_value_unclamped)
    IN  HSV2BGR(<<target_hue(color), MaxVal, current_value>>)

\* handle_phase_point_drawn / handle_phase_line_drawn / handle_phase_circle_drawn
handle_phase_drawn(pixels, color, c_bgr) ==
    /\ display_phase_vis' =
         IF display_phase_vis = None \/ display_normalized_spectrum = None THEN display_phase_vis
         ELSE [display_phase_vis EXCEPT ![c_bgr] =
                 [p \in Pixels |-> IF p \in pixels THEN PhaseTarget(p, color, c_bgr) ELSE @[p]]]
    /\ UNCHANGED <<display_normalized_spectrum, normalized_spectrum, phase_vis,
                   frequency_image, magnitude_spectrum, global_log_mag_range,
                   resulting_spatial_image, current_spatial_image>>

\* bgr_color = (color.blue(), color.green(), color.red())
bgr_color(color) == [c \in Channels |-> PenComponent(color, map_bgr_to_rgb_idx(c))]

\* handle_spatial_point_drawn / handle_spatial_line_drawn /
\* handle_spatial_circle_drawn: the pen colour written into the spatial image
handle_spatial_drawn(pixels, color) ==
    /\ current_spatial_image' =
         IF current_spatial_image = None THEN None
         ELSE [p \in Pixels |->
                 IF p \in pixels THEN bgr_color(color) ELSE current_spatial_image[p]]
    /\ UNCHANGED <<display_normalized_spectrum, display_phase_vis, normalized_spectrum,
                   phase_vis, frequency_image, magnitude_spectrum, global_log_mag_range,
                   resulting_spatial_image>>

\* the handler connected to the canvas' lineDrawn/pointDrawn/circleDrawn signal
handle_drawn(canvas, pixels, color) ==
    IF canvas = "spatial" THEN handle_spatial_drawn(pixels, color)
    ELSE IF canvas = "freq" THEN handle_freq_drawn(pixels, color)
    ELSE handle_phase_drawn(pixels, color, channel_index_bgr(canvas))

\* DrawableCanvas(drawing_allowed=...): every canvas but the result canvas
drawing_allowed(canvas) == canvas # "result"

PaintPoints == Pixels \cup {<<0, Width>>}
Thicknesses == {1, 3}

\* variant: a press draws whether or not drawing is enabled
mousePressEvent_enabled_unchecked(canvas, image_pos, effective_pen_width, color) ==
    /\ stroke = NoStroke
    /\ drawing_allowed(canvas)
    /\ canvas_image
    /\ budget > 0
    /\ budget' = budget - 1
    /\ LET pixels == IF effective_pen_width = 1 THEN PointPixels(image_pos)
                     ELSE CirclePixels(image_pos, effective_pen_width \div 2)
       IN  /\ handle_drawn(canvas, pixels, color)
           /\ stroke' = [canvas |-> canvas, pen_color |-> color,
                         last_image_point |-> image_pos, painted |-> pixels, moves |-> 0]
           /\ op' = [Did(IF effective_pen_width = 1 THEN "pointDrawn" ELSE "circleDrawn")
                       EXCEPT !.canvas = canvas, !.pen_color = color, !.painted = pixels,
                              !.before = PaintSnapshot]
    /\ UNCHANGED <<lock, drawing_enabled, status, canvas_image, tools_enabled>>

\* mousePressEvent with the left button: pointDrawn or circleDrawn at the press
mousePressEvent(canvas, image_pos, effective_pen_width, color) ==
    /\ stroke = NoStroke
    /\ drawing_enabled /\ drawing_allowed(canvas)
    /\ canvas_image
    /\ budget > 0
    /\ budget' = budget - 1
    /\ LET pixels == IF effective_pen_width = 1 THEN PointPixels(image_pos)
                     ELSE CirclePixels(image_pos, effective_pen_width \div 2)
       IN  /\ handle_drawn(canvas, pixels, color)
           /\ stroke' = [canvas |-> canvas, pen_color |-> color,
                         last_image_point |-> image_pos, painted |-> pixels, moves |-> 0]
           /\ op' = [Did(IF effective_pen_width = 1 THEN "pointDrawn" ELSE "circleDrawn")
                       EXCEPT !.canvas = canvas, !.pen_color = color, !.painted = pixels,
                              !.before = PaintSnapshot]
    /\ UNCHANGED <<lock, drawing_enabled, status, canvas_image, tools_enabled>>

\* mouseMoveEvent while drawing: lineDrawn from the last point to a new one
mouseMoveEvent(current_image_pos, thickness) ==
    /\ stroke # NoStroke
    /\ drawing_enabled /\ drawing_allowed(stroke.canvas)
    /\ canvas_image
    /\ stroke.moves < MaxMoves
    /\ stroke.last_image_point # current_image_pos
    /\ LET pixels == LinePixels(stroke.last_image_point, current_image_pos, thickness)
       IN  /\ handle_drawn(stroke.canvas, pixels, stroke.pen_color)
           /\ stroke' = [stroke EXCEPT !.last_image_point = current_image_pos,
                                       !.painted = @ \cup pixels, !.moves = @ + 1]
           /\ op' = [Did("lineDrawn") EXCEPT !.canvas = stroke.canvas,
                                              !.pen_color = stroke.pen_color,
                                              !.painted = pixels,
                                              !.before = PaintSnapshot]
    /\ UNCHANGED <<lock, drawing_enabled, status, canvas_image, tools_enabled, budget>>

-----------------------------------------------------------------------------
(* drawingFinished handlers: edit reconciliation *)

\* np.any(np.abs(final - original) > 10, axis=2), as the set of pixels where it holds
\* variant: a difference equal to the tolerance counts as a change
ChangeMask_inclusive(final, original) ==
    {p \in Pixels : \E k \in DOMAIN final[p] : Abs(final[p][k] - original[p][k]) >= MaskTolerance}

ChangeMask(final, original) ==
    {p \in Pixels : \E k \in DOMAIN final[p] : Abs(final[p][k] - original[p][k]) > MaskTolerance}

\* variant: one dark channel makes the pixel black
is_black_any_channel(final_rgb_pixel) == \E c_rgb \in Channels : final_rgb_pixel[c_rgb] < BlackTolerance

\* np.all(final_rgb_pixel < black_tolerance)
is_black(final_rgb_pixel) == \A c_rgb \in Channels : final_rgb_pixel[c_rgb] < BlackTolerance

\* (v / 255.0) * global_log_mag_range_width + global_min_log_mag
target_log_mag(v, range) == range[1] + (v * (range[2] - range[1])) \div MaxVal

\* variant: the lock looked up by the RGB index of the channel
lock_state_rgb_indexed(c_bgr) == lock[map_bgr_to_rgb_idx(c_bgr)]

\* lock_state[c_bgr] read when the stroke is finalized
lock_state(c_bgr) == lock[c_bgr]

\* variant: the decoded magnitude written as a positive real number
ReconciledValue_phase_dropped(original, final_rgb_pixel, c_bgr, range) ==
    IF is_black(final_rgb_pixel) THEN ComplexZero
    ELSE Polar(target_log_mag(final_rgb_pixel[map_bgr_to_rgb_idx(c_bgr)], range), HalfTurn)

\* the value written for channel c_bgr of a changed pixel
ReconciledValue(original, final_rgb_pixel, c_bgr, range) ==
    IF is_black(final_rgb_pixel) THEN ComplexZero
    ELSE Polar(target_log_mag(final_rgb_pixel[map_bgr_to_rgb_idx(c_bgr)], range),
               AngleOf(original))

\* modified_complex_bgr of freq_drawing_finished
ReconcileMagnitude(freq, final, mask, range) ==
    [p \in Pixels |-> [c_bgr \in Channels |->
        IF p \in mask /\ ~lock_state(c_bgr)
        THEN ReconciledValue(freq[p][c_bgr], final[p], c_bgr, range)
        ELSE freq[p][c_bgr]]]

\* _update_phase_displays_from_magnitude: the value component of every phase
\* display recomputed from the spectrum, hue and saturation re-read from the display
update_phase_displays_from_magnitude(freq, range, displays) ==
    [c_bgr \in Channels |-> [p \in Pixels |->
        LET current_hsv == BGR2HSV(displays[c_bgr][p])
            new_value_unclamped == normalize_for_display(LogMagOf(freq[p][c_bgr]), range[1], range[2])
        IN  HSV2BGR(<<current_hsv[1], current_hsv[2], Max2(ValueFloor, new_value_unclamped)>>)]]

\* variant: the handler edits the spectrum in place, channel after channel,
\* and stops at the first one when the step fails
commit_frequency_image_in_place(fault, original, modified) ==
    IF fault = "copy"
    THEN [p \in Pixels |-> [c \in Channels |->
            IF c = 0 THEN modified[p][c] ELSE original[p][c]]]
    ELSE modified

\* modified = self.frequency_image.copy(); ...; self.frequency_image = modified:
\* the spectrum a handler leaves
commit_frequency_image(fault, original, modified) ==
    IF fault = "copy" THEN original ELSE modified

freq_drawing_finished(fault) ==
    IF frequency_image = None \/ display_normalized_spectrum = None \/ normalized_spectrum = None
    THEN /\ fault = "none"
         /\ status' = "Error: Missing data for frequency modification finalization."
         /\ UNCHANGED <<frequency_image, resulting_spatial_image, display_phase_vis>>
    ELSE LET mask == ChangeMask(display_normalized_spectrum, normalized_spectrum)
             range == global_log_mag_range
             modified == ReconcileMagnitude(frequency_image, display_normalized_spectrum, mask, range)
         IN  IF mask = {}
             THEN /\ fault = "none"
                  /\ status' = "No final changes detected."
                  /\ UNCHANGED <<frequency_image, resulting_spatial_image, display_phase_vis>>
             ELSE IF range[2] - range[1] < 1
             THEN /\ fault = "none"
                  /\ status' = "Cannot modify: Log range zero."
                  /\ UNCHANGED <<frequency_image, resulting_spatial_image, display_phase_vis>>
             ELSE /\ fault \in {"none", "copy", "ifft"}
                  /\ frequency_image' = commit_frequency_image(fault, frequency_image, modified)
                  /\ IF fault = "copy"
                     THEN /\ status' = "Error finalizing frequency drawing"
                          /\ UNCHANGED <<resulting_spatial_image, display_phase_vis>>
                     ELSE /\ resulting_spatial_image' = inverse_transform(frequency_image', fault)
                          /\ display_phase_vis' =
                               IF display_phase_vis = None THEN None
                               ELSE update_phase_displays_from_magnitude(frequency_image', range,
                                                                         display_phase_vis)
                          /\ status' = "Frequency magnitude edit finalized."

\* new_phase decoded from the hue of an edited pixel
new_phase(final_bgr_pixel) == PhaseOfHue(BGR2HSV(final_bgr_pixel)[1])

\* the value written for a changed pixel of the edited channel
PhaseReconciledValue(original, final_bgr_pixel) ==
    WithPhase(original, new_phase(final_bgr_pixel))

\* variant: the phase written to the channel with the mirrored index
PhaseTargetChannel_rgb_indexed(c_bgr) == map_bgr_to_rgb_idx(c_bgr)

\* the channel of the spectrum a phase commit of channel_index_bgr writes
PhaseTargetChannel(c_bgr) == c_bgr

\* modified_complex_bgr of _process_phase_drawing_finished
ReconcilePhase(freq, drawn, mask, c_bgr) ==
    [p \in Pixels |-> [c \in Channels |->
        IF p \in mask /\ c = PhaseTargetChannel(c_bgr)
        THEN PhaseReconciledValue(freq[p][c], drawn[p])
        ELSE freq[p][c]]]

process_phase_drawing_finished(c_bgr, fault) ==
    IF frequency_image = None \/ display_phase_vis = None \/ phase_vis = None
    THEN /\ fault = "none"
         /\ status' = "Error: Missing data for phase finalization."
         /\ UNCHANGED <<frequency_image, resulting_spatial_image>>
    ELSE LET drawn == display_phase_vis[c_bgr]
             mask == ChangeMask(drawn, phase_vis[c_bgr])
             modified == ReconcilePhase(frequency_image, drawn, mask, c_bgr)
         IN  IF mask = {}
             THEN /\ fault = "none"
                  /\ status' = "No final changes detected in phase."
                  /\ UNCHANGED <<frequency_image, resulting_spatial_image>>
             ELSE /\ fault \in {"none", "copy", "ifft"}
                  /\ frequency_image' = commit_frequency_image(fault, frequency_image, modified)
                  /\ IF fault = "copy"
                     THEN /\ status' = "Error finalizing phase drawing"
                          /\ UNCHANGED resulting_spatial_image
                     ELSE /\ resulting_spatial_image' = inverse_transform(frequency_image', fault)
                          /\ status' = "phase edit finalized."

\* spatial_drawing_finished: everything recomputed from the painted image
spatial_drawing_finished(fault) ==
    IF current_spatial_image = None
    THEN /\ fault = "none"
         /\ status' = "Error processing spatial drawing."
         /\ UNCHANGED <<resulting_spatial_image, frequency_image, magnitude_spectrum,
                        global_log_mag_range, normalized_spectrum, phase_vis,
                        display_normalized_spectrum, display_phase_vis, canvas_image>>
    ELSE /\ compute_and_invert(current_spatial_image, fault)
         /\ canvas_image' = IF fault = "none" THEN TRUE ELSE canvas_image
         /\ status' = IF fault = "none" THEN "Spatial drawing processed."
                      ELSE "Error processing spatial drawing"

\* mouseReleaseEvent with the left button: drawingFinished of the canvas
mouseReleaseEvent(fault) ==
    /\ stroke # NoStroke
    /\ drawing_allowed(stroke.canvas)
    /\ canvas_image
    /\ stroke' = NoStroke
    /\ CASE stroke.canvas = "spatial" -> spatial_drawing_finished(fault)
         [] stroke.canvas = "freq" ->
              /\ freq_drawing_finished(fault)
              /\ UNCHANGED <<magnitude_spectrum, global_log_mag_range, normalized_spectrum,
                             phase_vis, display_normalized_spectrum, canvas_image>>
         [] OTHER ->
              /\ process_phase_drawing_finished(channel_index_bgr(stroke.canvas), fault)
              /\ UNCHANGED <<magnitude_spectrum, global_log_mag_range, normalized_spectrum,
                             phase_vis, display_normalized_spectrum, display_phase_vis,
                             canvas_image>>
    /\ op' = [Did(CASE stroke.canvas = "spatial" -> "spatial_drawing_finished"
                    [] stroke.canvas = "freq" -> "freq_drawing_finished"
                    [] OTHER -> "phase_drawing_finished") EXCEPT
                !.canvas = stroke.canvas,
                !.pen_color = stroke.pen_color,
                !.painted = stroke.painted,
                !.mask = CASE stroke.canvas = "spatial" -> {}
                           [] stroke.canvas = "freq" /\ normalized_spectrum # None
                                /\ display_normalized_spectrum # None ->
                                ChangeMask(display_normalized_spectrum, normalized_spectrum)
                           [] stroke.canvas \in PhaseCanvases /\ phase_vis # None
                                /\ display_phase_vis # None ->
                                ChangeMask(display_phase_vis[channel_index_bgr(stroke.canvas)],
                                           phase_vis[channel_index_bgr(stroke.canvas)])
                           [] OTHER -> {},
                !.locks = {c \in Channels : lock[c]},
                !.fault = fault]
    /\ UNCHANGED <<current_spatial_image, lock, drawing_enabled, tools_enabled, budget>>

-----------------------------------------------------------------------------
(* Filters.  A fraction is given in thousandths, as the prompts deliver it    *)
(* (a percentage with one decimal, divided by 100).                          *)

center_row == Height \div 2
center_col == Width \div 2

\* variant: the half sizes rounded up
MaxRadiusSq_rounded_up ==
    ((Height + 1) \div 2) * ((Height + 1) \div 2) + ((Width + 1) \div 2) * ((Width + 1) \div 2)

\* max_radius ** 2
MaxRadiusSq == (Height \div 2) * (Height \div 2) + (Width \div 2) * (Width \div 2)

\* dist_from_center ** 2 of a pixel
DistSq(p) == (p[1] - center_row) * (p[1] - center_row) + (p[2] - center_col) * (p[2] - center_col)

\* variant: a pixel on the keep radius is outside the mask
RadialKeep_strict(p, fraction) == DistSq(p) * 1000 * 1000 < fraction * fraction * MaxRadiusSq

\* mask = dist_from_center <= radius_fraction * max_radius
RadialKeep(p, fraction) == DistSq(p) * 1000 * 1000 <= fraction * fraction * MaxRadiusSq

\* modified_frequency_image of apply_radial_filter
RadialFiltered(freq, fraction) ==
    [p \in Pixels |-> [c \in Channels |->
        IF RadialKeep(p, fraction) THEN freq[p][c] ELSE ComplexZero]]

\* mask_below_threshold = log_magnitudes < min + threshold_fraction * range
BelowThreshold(logmag, range, fraction) ==
    logmag * 1000 < range[1] * 1000 + fraction * (range[2] - range[1])

\* modified_frequency_image of apply_magnitude_filter
MagnitudeFiltered(freq, log_magnitudes, range, fraction) ==
    [p \in Pixels |-> [c \in Channels |->
        IF BelowThreshold(log_magnitudes[p][c], range, fraction) THEN ComplexZero
        ELSE freq[p][c]]]

\* dist_sq / (2 * sigma_pixels ** 2) on the grid: minus the log of gaussian_filter
Attenuation(p, fraction) ==
    (DistSq(p) * 1000 * 1000 * LogOne) \div (2 * fraction * fraction * MaxRadiusSq)

\* variant: sigma is never found too small
SigmaTooSmall_never(sigma_fraction) == sigma_fraction < 0

\* sigma_pixels < 1e-6, for sigma_pixels = sigma_fraction * max_radius: in
\* thousandths a sigma that is not zero is at least 0.001
SigmaTooSmall(sigma_fraction) ==
    sigma_fraction * sigma_fraction * MaxRadiusSq < 1

\* variant: the product keeps the magnitude only
Attenuated_phase_dropped(z, p, fraction) ==
    IF DistSq(p) = 0 \/ ~z.nz THEN z
    ELSE IF fraction * fraction * MaxRadiusSq = 0 THEN ComplexZero
    ELSE [z EXCEPT !.lm = Max2(0, @ - Attenuation(p, fraction)), !.ph = HalfTurn]

\* z * gaussian_filter: the phase is kept, the log-magnitude lowered (to the
\* first order for large magnitudes) and a zero stays zero; with sigma 0 the
\* filter is exp(-inf) = 0 away from the centre
Attenuated(z, p, fraction) ==
    IF DistSq(p) = 0 \/ ~z.nz THEN z
    ELSE IF fraction * fraction * MaxRadiusSq = 0 THEN ComplexZero
    ELSE [z EXCEPT !.lm = Max2(0, @ - Attenuation(p, fraction))]

\* modified_frequency_image of apply_gaussian_filter
GaussianFiltered(freq, fraction) ==
    [p \in Pixels |-> [c \in Channels |-> Attenuated(freq[p][c], p, fraction)]]

\* variant: the display copies are not refreshed
post_filter_update_keeps_display(freq, fault) ==
    LET ms == LogMagnitude(freq)
        range == GlobalLogRange(ms)
    IN  /\ resulting_spatial_image' = inverse_transform(freq, fault)
        /\ magnitude_spectrum' = ms
        /\ global_log_mag_range' = range
        /\ normalized_spectrum' = NormalizedSpectrum(ms, range)
        /\ phase_vis' = PhaseVis(freq, ms, range)
        /\ UNCHANGED <<display_normalized_spectrum, display_phase_vis>>
        /\ canvas_image' = TRUE

\* _post_filter_update: inverse_transform, then
\* _compute_visualizations_from_frequency_data, which keeps what it had when
\* it fails, then update_display_content
post_filter_update(freq, fault) ==
    LET ms == LogMagnitude(freq)
        range == GlobalLogRange(ms)
    IN  /\ resulting_spatial_image' = inverse_transform(freq, fault)
        /\ IF fault = "vis"
           THEN UNCHANGED <<magnitude_spectrum, global_log_mag_range, normalized_spectrum,
                            phase_vis, display_normalized_spectrum, display_phase_vis>>
           ELSE /\ magnitude_spectrum' = ms
                /\ global_log_mag_range' = range
                /\ normalized_spectrum' = NormalizedSpectrum(ms, range)
                /\ phase_vis' = PhaseVis(freq, ms, range)
                /\ display_normalized_spectrum' = NormalizedSpectrum(ms, range)
                /\ display_phase_vis' = PhaseVis(freq, ms, range)
        /\ canvas_image' = TRUE

\* what every filter action does around its computation
FilterFrame ==
    /\ stroke = NoStroke
    /\ tools_enabled
    /\ budget > 0
    /\ budget' = budget - 1
    /\ UNCHANGED <<current_spatial_image, lock, drawing_enabled, stroke, tools_enabled>>

\* variant: a filter returns without a message
FilterReturns_silent(fault, message) ==
    /\ fault = "none"
    /\ UNCHANGED <<status, frequency_image, resulting_spatial_image, magnitude_spectrum,
                   global_log_mag_range, normalized_spectrum, phase_vis,
                   display_normalized_spectrum, display_phase_vis, canvas_image>>

\* a filter that returns before it computes anything
FilterReturns(fault, message) ==
    /\ fault = "none"
    /\ status' = message
    /\ UNCHANGED <<frequency_image, resulting_spatial_image, magnitude_spectrum,
                   global_log_mag_range, normalized_spectrum, phase_vis,
                   display_normalized_spectrum, display_phase_vis, canvas_image>>

\* a filter that computes modified_frequency_image from the spectrum
FilterCommits(fault, modified, applied, error) ==
    /\ fault \in {"none", "copy", "ifft", "vis"}
    /\ frequency_image' = commit_frequency_image(fault, frequency_image, modified)
    /\ IF fault = "copy"
       THEN /\ status' = error
            /\ UNCHANGED <<resulting_spatial_image, magnitude_spectrum,
                           global_log_mag_range, normalized_spectrum, phase_vis,
                           display_normalized_spectrum, display_phase_vis, canvas_image>>
       ELSE /\ post_filter_update(frequency_image', fault)
            /\ status' = applied

\* prompt_radial_filter, then apply_radial_filter
apply_radial_filter(radius_fraction, fault) ==
    /\ FilterFrame
    /\ IF frequency_image = None
       THEN FilterReturns(fault, "Load an image first!")
       ELSE FilterCommits(fault, RadialFiltered(frequency_image, radius_fraction),
                          "Applied Radial Filter", "Error applying radial filter")
    /\ op' = [Did("apply_radial_filter") EXCEPT !.arg = radius_fraction, !.fault = fault]

\* prompt_magnitude_filter, then apply_magnitude_filter
apply_magnitude_filter(threshold_fraction, fault) ==
    /\ FilterFrame
    /\ IF frequency_image = None
       THEN FilterReturns(fault, "Load an image first!")
       ELSE IF magnitude_spectrum = None
       THEN FilterReturns(fault, "Frequency data not available.")
       ELSE IF global_log_mag_range[2] - global_log_mag_range[1] < 1
       THEN FilterReturns(fault, "Log magnitude range is zero.")
       ELSE FilterCommits(fault,
                          MagnitudeFiltered(frequency_image, magnitude_spectrum,
                                            global_log_mag_range, threshold_fraction),
                          "Applied Log Magnitude Filter",
                          "Error applying log magnitude filter")
    /\ op' = [Did("apply_magnitude_filter") EXCEPT !.arg = threshold_fraction,
                                                   !.fault = fault]

\* prompt_gaussian_filter, then apply_gaussian_filter.  The handler takes any
\* fraction; a sigma of zero is what an image with H//2 = W//2 = 0 gives.
apply_gaussian_filter(sigma_fraction, fault) ==
    /\ FilterFrame
    /\ IF frequency_image = None
       THEN FilterReturns(fault, "Load an image first!")
       ELSE IF SigmaTooSmall(sigma_fraction)
       THEN FilterReturns(fault, "Sigma too small.")
       ELSE FilterCommits(fault, GaussianFiltered(frequency_image, sigma_fraction),
                          "Applied Gaussian Filter", "Error applying Gaussian filter")
    /\ op' = [Did("apply_gaussian_filter") EXCEPT !.arg = sigma_fraction, !.fault = fault]

\* reset_frequency_domain: everything recomputed from current_spatial_image
reset_frequency_domain(fault) ==
    /\ stroke = NoStroke
    /\ tools_enabled
    /\ fault # "none" => budget > 0
    /\ budget' = IF fault # "none" THEN budget - 1 ELSE budget
    /\ IF current_spatial_image = None
       THEN /\ fault = "none"
            /\ status' = "No image loaded to reset frequency domain."
            /\ UNCHANGED <<resulting_spatial_image, frequency_image, magnitude_spectrum,
                           global_log_mag_range, normalized_spectrum, phase_vis,
                           display_normalized_spectrum, display_phase_vis, canvas_image>>
       ELSE /\ compute_and_invert(current_spatial_image, fault)
            /\ canvas_image' = IF fault = "none" THEN TRUE ELSE canvas_image
            /\ status' = IF fault = "none" THEN "Frequency domain edits reset."
                         ELSE "Error resetting frequency domain"
    /\ op' = [Did("reset_frequency_domain") EXCEPT !.fault = fault]
    /\ UNCHANGED <<current_spatial_image, lock, drawing_enabled, stroke, tools_enabled>>

\* apply_result_to_original: the reconstruction becomes the spatial image.
\* The reconstruction is some 8-bit image; it is drawn from Images.
apply_result_to_original(result_pixels, fault) ==
    /\ stroke = NoStroke
    /\ tools_enabled
    /\ budget > 0
    /\ budget' = budget - 1
    /\ IF resulting_spatial_image = None
       THEN /\ fault = "none"
            /\ status' = "No result image available to apply."
            /\ UNCHANGED <<current_spatial_image, resulting_spatial_image, frequency_image,
                           magnitude_spectrum, global_log_mag_range, normalized_spectrum,
                           phase_vis, display_normalized_spectrum, display_phase_vis,
                           canvas_image>>
       ELSE /\ current_spatial_image' = result_pixels
            /\ compute_and_invert(result_pixels, fault)
            /\ canvas_image' = IF fault = "fft" THEN canvas_image ELSE TRUE
            /\ status' = IF fault = "fft" THEN "Error applying result"
                         ELSE "Result applied to original spatial image."
    /\ op' = [Did("apply_result_to_original") EXCEPT !.fault = fault]
    /\ UNCHANGED <<lock, drawing_enabled, stroke, tools_enabled>>

RadialFractions == {1, 900, 1000}
ThresholdFractions == {0, 500}
SigmaFractions == {0, 1000}

Next ==
    \/ \E file \in ColorFiles : load_image(file, "none")
    \/ \E c \in Channels : toggle_lock(c)
    \/ \E canvas \in Canvases, image_pos \in PaintPoints, w \in Thicknesses, color \in Pens :
          mousePressEvent(canvas, image_pos, w, color)
    \/ \E image_pos \in PaintPoints, w \in Thicknesses : mouseMoveEvent(image_pos, w)
    \/ mouseReleaseEvent("none")
    \/ \E f \in RadialFractions : apply_radial_filter(f, "none")
    \/ \E f \in ThresholdFractions : apply_magnitude_filter(f, "none")
    \/ \E f \in SigmaFractions : apply_gaussian_filter(f, "none")
    \/ reset_frequency_domain("none")
    \/ \E img \in Images : apply_result_to_original(img, "none")

Spec == Init /\ [][Next]_vars

\* The editor with every kind of file, strokes on the spatial canvas too, and
\* steps that fail; the lock check boxes are left as they start
AnyFault == Faults \cup {"none"}

NextWithFaults ==
    \/ \E file \in Files : load_image(file, "none")
    \/ \E file \in ColorFiles, fault \in Faults : load_image(file, fault)
    \/ \E canvas \in Canvases, image_pos \in PaintPoints, w \in Thicknesses, color \in Pens :
          mousePressEvent(canvas, image_pos, w, color)
    \/ \E image_pos \in PaintPoints, color \in Pens :
          mousePressEvent("spatial", image_pos, 1, color)
    \/ \E image_pos \in PaintPoints, w \in Thicknesses : mouseMoveEvent(image_pos, w)
    \/ \E fault \in AnyFault : mouseReleaseEvent(fault)
    \/ \E f \in RadialFractions, fault \in AnyFault : apply_radial_filter(f, fault)
    \/ \E f \in ThresholdFractions, fault \in AnyFault : apply_magnitude_filter(f, fault)
    \/ \E f \in SigmaFractions, fault \in AnyFault : apply_gaussian_filter(f, fault)
    \/ \E fault \in AnyFault : reset_frequency_domain(fault)
    \/ \E img \in Images, fault \in AnyFault : apply_result_to_original(img, fault)

SpecWithFaults == Init /\ [][NextWithFaults]_vars

-----------------------------------------------------------------------------
(* Properties *)

MagCommitted == op.name = "freq_drawing_finished"
PhaseCommitted == op.name = "phase_drawing_finished"
PaintEvent == op.name \in {"pointDrawn", "lineDrawn", "circleDrawn"}

\* the entries <<pixel, c_bgr>> whose value the last handler changed
Changed ==
    {e \in Pixels \X Channels : frequency_image[e[1]][e[2]] # op.before.frequency_image[e[1]][e[2]]}

\* C1: a magnitude-edit commit leaves every entry of a channel whose lock is
\* set at commit time exactly as it was, whatever the change mask, and writes
\* to every unlocked channel of every changed pixel the reconciled value
\* (zero for a near-black pixel, else the decoded magnitude with the old phase).
C1_LockedChannelsUntouched ==
    MagCommitted =>
        \A p \in Pixels, c \in Channels :
            /\ c \in op.locks =>
                 frequency_image[p][c] = op.before.frequency_image[p][c]
            /\ (c \notin op.locks /\ p \in op.mask) =>
                 frequency_image[p][c] =
                    IF \A k \in Channels : display_normalized_spectrum[p][k] < BlackTolerance
                    THEN ComplexZero
                    ELSE Polar(target_log_mag(display_normalized_spectrum[p][2 - c],
                                              global_log_mag_range),
                               AngleOf(op.before.frequency_image[p][c]))

\* C1 witness: a commit with a lock set, in whose change mask a locked channel's
\* display differs from the baseline by more than the tolerance, and which
\* rewrote an unlocked entry.
C1_Witness ==
    /\ MagCommitted
    /\ \E p \in op.mask, c \in op.locks :
          Abs(display_normalized_spectrum[p][2 - c] - normalized_spectrum[p][2 - c]) > MaskTolerance
    /\ \E e \in Changed : e[2] \notin op.locks

\* C2 as stated: after a stroke with a near-black pen on the magnitude
\* visualization is finalized, every unlocked channel is exactly 0+0j at every
\* painted pixel, for every lock configuration and every baseline value.
C2_BlackPenZeroesUnlocked ==
    (MagCommitted /\ is_black_pen(op.pen_color)) =>
        \A p \in op.painted, c \in Channels \ op.locks : ~frequency_image[p][c].nz

\* C2: after a stroke with a near-black pen is finalized, an unlocked channel
\* of a painted pixel is exactly 0+0j when the pixel differs from the baseline
\* by more than the tolerance in some channel and all three of its display
\* values, those of locked channels included, are below the black tolerance;
\* when a locked channel keeps a display value at or above the black tolerance
\* the unlocked channels get the smallest magnitude the display encodes, with
\* their phase kept; a pixel within the tolerance of the baseline keeps its values.
C2_BlackPenZeroesBlackPixels ==
    (MagCommitted /\ is_black_pen(op.pen_color)) =>
        \A p \in op.painted, c \in Channels \ op.locks :
            LET shown == op.before.display_normalized_spectrum[p]
                base == op.before.normalized_spectrum[p]
                was == op.before.frequency_image[p][c]
            IN  frequency_image[p][c] =
                  IF \A k \in Channels : Abs(shown[k] - base[k]) <= MaskTolerance THEN was
                  ELSE IF \A k \in Channels : shown[k] < BlackTolerance THEN ComplexZero
                  ELSE [nz |-> TRUE, lm |-> op.before.global_log_mag_range[1], ph |-> was.ph]

\* C2 witness: one finalized stroke of the black pen, with a lock set, that
\* zeroed an unlocked channel at one painted pixel and gave an unlocked channel
\* the smallest encoded magnitude at another.
C2_Witness ==
    /\ MagCommitted
    /\ is_black_pen(op.pen_color)
    /\ op.locks # {}
    /\ \E p \in op.painted, c \in Channels \ op.locks :
          /\ ~frequency_image[p][c].nz
          /\ op.before.frequency_image[p][c].nz
    /\ \E p \in op.painted \cap op.mask, c \in Channels \ op.locks :
          /\ frequency_image[p][c].nz
          /\ frequency_image[p][c].lm = global_log_mag_range[1]

\* C3: a commit whose edited visualization differs from the baseline by at
\* most the tolerance in every pixel and channel changes neither the spectrum
\* nor the reconstruction and reports that nothing changed; the change mask is
\* the set of pixels where some channel differs by more than the tolerance.
C3_SubThresholdCommitIsNoOp ==
    /\ MagCommitted =>
         /\ op.mask = {p \in Pixels : \E k \in Channels :
                          Abs(op.before.display_normalized_spectrum[p][k]
                              - op.before.normalized_spectrum[p][k]) > MaskTolerance}
         /\ op.mask = {} =>
              /\ frequency_image = op.before.frequency_image
              /\ resulting_spatial_image = op.before.resulting_spatial_image
              /\ status = "No final changes detected."
    /\ PhaseCommitted =>
         LET c == channel_index_bgr(op.canvas)
         IN  /\ op.mask = {p \in Pixels : \E k \in 1 .. 3 :
                              Abs(op.before.display_phase_vis[c][p][k]
                                  - op.before.phase_vis[c][p][k]) > MaskTolerance}
             /\ op.mask = {} =>
                  /\ frequency_image = op.before.frequency_image
                  /\ resulting_spatial_image = op.before.resulting_spatial_image
                  /\ status = "No final changes detected in phase."

\* C3 witness: a finalized magnitude stroke that painted a pixel to a value
\* that differs from the baseline by exactly the tolerance in one channel and
\* by no more in the others.
C3_Witness ==
    /\ MagCommitted
    /\ op.mask = {}
    /\ \E p \in op.painted, k \in Channels :
          Abs(display_normalized_spectrum[p][k] - normalized_spectrum[p][k]) = MaskTolerance

\* C4: a phase-edit commit on channel c sets, at every changed pixel, the
\* phase of the entry of channel c to the angle decoded from the edited hue
\* and leaves its magnitude as it was.
C4_PhaseOnly ==
    PhaseCommitted =>
        LET c == channel_index_bgr(op.canvas)
        IN  \A p \in op.mask :
               /\ AngleOf(frequency_image[p][c])
                    = PhaseOfHue(BGR2HSV(op.before.display_phase_vis[c][p])[1])
               /\ frequency_image[p][c].nz = op.before.frequency_image[p][c].nz
               /\ LogMagOf(frequency_image[p][c]) = LogMagOf(op.before.frequency_image[p][c])

\* C5: a magnitude-edit commit gives every rewritten entry that the black
\* sentinel does not zero the magnitude decoded from its display value and
\* the phase the entry had immediately before the commit.
C5_MagnitudeCommitKeepsPhase ==
    MagCommitted =>
        \A p \in op.mask, c \in Channels \ op.locks :
            (\E k \in Channels : op.before.display_normalized_spectrum[p][k] >= BlackTolerance) =>
                LET v == op.before.display_normalized_spectrum[p][2 - c]
                    min_log == op.before.global_log_mag_range[1]
                    max_log == op.before.global_log_mag_range[2]
                IN  /\ frequency_image[p][c].nz
                    /\ frequency_image[p][c].lm = min_log + (v * (max_log - min_log)) \div MaxVal
                    /\ frequency_image[p][c].ph = op.before.frequency_image[p][c].ph

\* C5 witness: a magnitude commit that rewrote an entry whose phase had been
\* set by an earlier phase edit (no transform of a real image has that phase).
C5_Witness ==
    /\ MagCommitted
    /\ \E e \in Changed :
          /\ frequency_image[e[1]][e[2]].nz
          /\ frequency_image[e[1]][e[2]].ph \notin {0, HalfTurn, FullTurn}

\* C6: a commit of either kind leaves every entry at a pixel outside the
\* change mask as it was; a phase commit of channel c leaves the other two
\* channels as they were at every pixel, and every baseline and display
\* visualization as it was.
C6_OutsideMaskUntouched ==
    /\ (MagCommitted \/ PhaseCommitted) =>
         \A p \in Pixels \ op.mask :
            frequency_image[p] = op.before.frequency_image[p]
    /\ PhaseCommitted =>
         /\ \A p \in Pixels, c \in Channels \ {channel_index_bgr(op.canvas)} :
               frequency_image[p][c] = op.before.frequency_image[p][c]
         /\ normalized_spectrum = op.before.normalized_spectrum
         /\ phase_vis = op.before.phase_vis
         /\ display_normalized_spectrum = op.before.display_normalized_spectrum
         /\ display_phase_vis = op.before.display_phase_vis

\* C6 witness: a phase commit that rewrote an entry while a pixel lay outside
\* its change mask.
C6_Witness ==
    /\ PhaseCommitted
    /\ Changed # {}
    /\ op.mask # Pixels

\* C7: a paint event (point, line or circle, on the magnitude canvas or on a
\* phase canvas) changes nothing but the display copies: the spectrum, the log
\* magnitudes, the log range, the baselines and the reconstruction stay.
C7_PaintTouchesOnlyDisplay ==
    PaintEvent =>
        /\ frequency_image = op.before.frequency_image
        /\ magnitude_spectrum = op.before.magnitude_spectrum
        /\ global_log_mag_range = op.before.global_log_mag_range
        /\ normalized_spectrum = op.before.normalized_spectrum
        /\ phase_vis = op.before.phase_vis
        /\ resulting_spatial_image = op.before.resulting_spatial_image
        /\ current_spatial_image = op.before.current_spatial_image

\* C7 witness: a line event of an unfinished stroke after which a display copy
\* differs from its baseline.
C7_Witness ==
    /\ op.name = "lineDrawn"
    /\ stroke # NoStroke
    /\ frequency_image # None
    /\ \/ display_normalized_spectrum # normalized_spectrum
       \/ display_phase_vis # phase_vis

\* C8: with an image loaded and no stroke in progress, the stored log
\* magnitudes, the log range and the baseline visualizations are the ones
\* derived from the current spectrum.
C8_DerivedStateFresh ==
    (frequency_image # None /\ stroke = NoStroke) =>
        /\ magnitude_spectrum = LogMagnitude(frequency_image)
        /\ global_log_mag_range = GlobalLogRange(LogMagnitude(frequency_image))
        /\ normalized_spectrum =
              NormalizedSpectrum(LogMagnitude(frequency_image),
                                 GlobalLogRange(LogMagnitude(frequency_image)))
        /\ phase_vis =
              PhaseVis(frequency_image, LogMagnitude(frequency_image),
                       GlobalLogRange(LogMagnitude(frequency_image)))

\* C9: a magnitude-edit commit rewrites entries only at pixels painted in the
\* stroke being finalized.
C9_OnlyThisStrokeRewritten ==
    MagCommitted => \A e \in Changed : e[1] \in op.painted

\* C10: a phase-edit commit rewrites entries only at pixels painted on that
\* phase canvas in the stroke being finalized.
C10_OnlyPaintedPhaseRewritten ==
    PhaseCommitted => \A e \in Changed : e[1] \in op.painted

RadialApplied == op.name = "apply_radial_filter"
ThresholdApplied == op.name = "apply_magnitude_filter"
GaussianApplied == op.name = "apply_gaussian_filter"

\* the nine data fields are the ones the last handler found
DataUnchanged == Snapshot = op.before

\* C12: the magnitude-threshold filter zeroes exactly the entries whose
\* log-magnitude in the spectrum it is applied to is below
\* min + fraction * (max - min) of the log range, and leaves every other
\* entry as it was.
C12_ThresholdOnCurrentSpectrum ==
    ThresholdApplied =>
        \A p \in Pixels, c \in Channels :
            LET z == op.before.frequency_image[p][c]
                range == op.before.global_log_mag_range
            IN  IF LogMagOf(z) * 1000 < range[1] * 1000 + op.arg * (range[2] - range[1])
                THEN ~frequency_image[p][c].nz
                ELSE frequency_image[p][c] = z

\* C13 as stated: the radial filter zeroes all channels at exactly the pixels
\* farther from the centre than fraction * sqrt((H/2)^2 + (W/2)^2), with the
\* real halves of H and W, and leaves every other entry as it was.
C13_RadiusFromRealHalves ==
    RadialApplied =>
        \A p \in Pixels :
            IF 4 * DistSq(p) * 1000 * 1000 > op.arg * op.arg * (Height * Height + Width * Width)
            THEN \A c \in Channels : ~frequency_image[p][c].nz
            ELSE frequency_image[p] = op.before.frequency_image[p]

\* C13: the radial filter zeroes all channels at exactly the pixels farther
\* from the centre (H//2, W//2) than fraction * sqrt((H//2)^2 + (W//2)^2),
\* with the floored halves of H and W, and leaves every other entry as it was.
C13_RadiusFromFlooredHalves ==
    RadialApplied =>
        \A p \in Pixels :
            IF DistSq(p) * 1000 * 1000 >
                  op.arg * op.arg * ((Height \div 2) * (Height \div 2) + (Width \div 2) * (Width \div 2))
            THEN \A c \in Channels : frequency_image[p][c] = ComplexZero
            ELSE frequency_image[p] = op.before.frequency_image[p]

\* a pixel within fraction * sqrt((H/2)^2 + (W/2)^2) of the centre, non-zero
\* before a radial filter of an odd-height image, is zeroed by it
C13_Witness ==
    /\ RadialApplied
    /\ Height % 2 = 1
    /\ \E p \in Pixels :
          /\ DistSq(p) * 1000 * 1000 > op.arg * op.arg * MaxRadiusSq
          /\ 4 * DistSq(p) * 1000 * 1000 <= op.arg * op.arg * (Height * Height + Width * Width)
          /\ \E c \in Channels : op.before.frequency_image[p][c].nz
          /\ \A c \in Channels : frequency_image[p][c] = ComplexZero

\* C14: the radial filter with fraction 1.0 leaves the spectrum as it was, and
\* with any fraction it leaves the entries of the centre pixel (H//2, W//2)
\* as they were.
C14_FullRadiusAndCentreKept ==
    RadialApplied =>
        /\ op.arg = 1000 => frequency_image = op.before.frequency_image
        /\ frequency_image[<<Height \div 2, Width \div 2>>] =
              op.before.frequency_image[<<Height \div 2, Width \div 2>>]

\* a radial filter with fraction 1.0 has run on a spectrum with a non-zero
\* entry at a corner, or one with a fraction near 0 on a non-zero centre
C14_Witness ==
    /\ RadialApplied
    /\ \/ /\ op.arg = 1000
          /\ \E c \in Channels : op.before.frequency_image[<<0, 0>>][c].nz
       \/ /\ op.arg < 900
          /\ \E c \in Channels : op.before.frequency_image[<<Height \div 2, Width \div 2>>][c].nz

\* C19: a Gaussian filter whose sigma = sigmaFraction * sqrt((H//2)^2 +
\* (W//2)^2) is below 1e-6 (in thousandths: is zero) changes no data and reports that sigma is too small.
C19_DegenerateSigmaIsNoOp ==
    (GaussianApplied /\
     op.arg * op.arg * ((Height \div 2) * (Height \div 2) + (Width \div 2) * (Width \div 2))
        < 1) =>
        /\ DataUnchanged
        /\ status = "Sigma too small."

\* a Gaussian filter of degenerate sigma has run on a spectrum with a non-zero
\* entry away from the centre
C19_Witness ==
    /\ GaussianApplied
    /\ op.arg * op.arg * MaxRadiusSq = 0
    /\ \E c \in Channels : op.before.frequency_image[<<0, 0>>][c].nz

Loaded == op.name = "load_image"
SpatialCommitted == op.name = "spatial_drawing_finished"
ResetDone == op.name = "reset_frequency_domain"
ResultApplied == op.name = "apply_result_to_original"
FilterApplied == RadialApplied \/ ThresholdApplied \/ GaussianApplied

\* a step of the last handler failed
Faulted == op.fault # "none"

\* the messages of a handler that returned before it computed anything
ReturnedEarly ==
    status \in {"Error loading image", "No result image available to apply.",
                "No image loaded to reset frequency domain.",
                "Error processing spatial drawing.", "Load an image first!",
                "Frequency data not available.", "Log magnitude range is zero.",
                "Sigma too small."}

\* the last handler rebuilt the log magnitudes and the log range
RangeRebuilt ==
    /\ frequency_image # None
    /\ Loaded \/ SpatialCommitted \/ ResetDone \/ ResultApplied \/ FilterApplied
    /\ op.fault \in {"none", "ifft"}
    /\ ~ReturnedEarly

\* the log-magnitudes of the entries of the spectrum
RawLogMagnitudes == {LogMagOf(frequency_image[p][c]) : p \in Pixels, c \in Channels}

\* C11: in every state the log range has max > min, and a handler that
\* rebuilds it from a spectrum whose raw log-magnitude range is below epsilon
\* stores (min, min + 1.0), else the raw (min, max).
C11_RangeMaxAboveMin ==
    /\ global_log_mag_range[2] > global_log_mag_range[1]
    /\ RangeRebuilt =>
         LET lo == CHOOSE x \in RawLogMagnitudes : \A y \in RawLogMagnitudes : x <= y
             hi == CHOOSE x \in RawLogMagnitudes : \A y \in RawLogMagnitudes : x >= y
         IN  global_log_mag_range = IF hi - lo < 1 THEN <<lo, lo + LogOne>> ELSE <<lo, hi>>

\* the range was rebuilt from a spectrum whose entries all have the same
\* log-magnitude
C11_Witness ==
    /\ RangeRebuilt
    /\ \A x, y \in RawLogMagnitudes : x = y
    /\ global_log_mag_range[2] = global_log_mag_range[1] + LogOne

StatusIsError ==
    status \in {"Error loading image", "Error resetting frequency domain",
                "Error processing spatial drawing", "Error applying result",
                "Error finalizing frequency drawing", "Error finalizing phase drawing",
                "Error applying radial filter", "Error applying log magnitude filter",
                "Error applying Gaussian filter"}

\* C15: a handler in which a step fails leaves the spectrum, the log range,
\* the baseline and display visualizations and the reconstruction as they
\* were, and reports an error.
C15_FailureKeepsPublishedState ==
    Faulted =>
        /\ frequency_image = op.before.frequency_image
        /\ global_log_mag_range = op.before.global_log_mag_range
        /\ normalized_spectrum = op.before.normalized_spectrum
        /\ phase_vis = op.before.phase_vis
        /\ display_normalized_spectrum = op.before.display_normalized_spectrum
        /\ display_phase_vis = op.before.display_phase_vis
        /\ resulting_spatial_image = op.before.resulting_spatial_image
        /\ StatusIsError

\* the spectrum the last edit commit or filter computes from the data it found
ComputedSpectrum ==
    CASE RadialApplied -> RadialFiltered(op.before.frequency_image, op.arg)
      [] ThresholdApplied ->
           MagnitudeFiltered(op.before.frequency_image, op.before.magnitude_spectrum,
                             op.before.global_log_mag_range, op.arg)
      [] GaussianApplied -> GaussianFiltered(op.before.frequency_image, op.arg)
      [] MagCommitted ->
           ReconcileMagnitude(op.before.frequency_image,
                              op.before.display_normalized_spectrum, op.mask,
                              op.before.global_log_mag_range)
      [] PhaseCommitted ->
           ReconcilePhase(op.before.frequency_image,
                          op.before.display_phase_vis[channel_index_bgr(op.canvas)],
                          op.mask, channel_index_bgr(op.canvas))

\* C16: after an edit commit or a filter in which a step failed, the spectrum
\* is entirely the one before the handler or entirely the one the handler
\* computes, never a mixture.
C16_CopyThenCommit ==
    (Faulted /\ (FilterApplied \/ MagCommitted \/ PhaseCommitted)) =>
        \/ frequency_image = op.before.frequency_image
        \/ frequency_image = ComputedSpectrum

\* a filter that would have changed the spectrum failed before its commit
C16_Witness ==
    /\ Faulted
    /\ FilterApplied
    /\ op.fault = "copy"
    /\ ComputedSpectrum # op.before.frequency_image
    /\ frequency_image = op.before.frequency_image

\* C17: with no spectrum, a magnitude or phase stroke commit and a filter
\* change no data and report it in the status bar.
C17_EmptyStateOpsChangeNothing ==
    (op.name # "init" /\ op.before # None /\ op.before.frequency_image = None
     /\ (MagCommitted \/ PhaseCommitted \/ FilterApplied)) =>
        /\ DataUnchanged
        /\ frequency_image = None
        /\ status = CASE MagCommitted ->
                           "Error: Missing data for frequency modification finalization."
                      [] PhaseCommitted -> "Error: Missing data for phase finalization."
                      [] FilterApplied -> "Load an image first!"

\* a stroke was committed on the magnitude canvas, or a filter asked for,
\* after a frequency computation that failed
C17_Witness ==
    /\ op.before # None
    /\ op.before.frequency_image = None
    /\ op.before.current_spatial_image # None
    /\ \/ MagCommitted /\ op.painted # {}
       \/ FilterApplied

Rebuilt == RangeRebuilt /\ ~Faulted

\* the HSV value of a BGR pixel
ValueOf(bgr) == Max2(bgr[1], Max2(bgr[2], bgr[3]))

\* C21: after a successful load, spatial commit, reset, apply-result or filter
\* application every display visualization equals its baseline, and both are
\* the encoding of the new spectrum.
C21_DisplaysRebuilt ==
    Rebuilt =>
        LET ms == [p \in Pixels |-> [c \in Channels |-> LogMagOf(frequency_image[p][c])]]
            range == global_log_mag_range
        IN  /\ display_normalized_spectrum = normalized_spectrum
            /\ display_phase_vis = phase_vis
            /\ \A p \in Pixels, k \in Channels :
                 normalized_spectrum[p][k] =
                    normalize_for_display(ms[p][2 - k], range[1], range[2])
            /\ \A p \in Pixels, c \in Channels :
                 phase_vis[c][p] =
                    HSV2BGR(<<AngleOf(frequency_image[p][c]) \div 2, MaxVal,
                              Max2(1, normalize_for_display(ms[p][c], range[1], range[2]))>>)

\* a filter was applied while a display copy held paint its baseline did not
C21_Witness ==
    /\ Rebuilt
    /\ FilterApplied
    /\ op.before.display_normalized_spectrum # op.before.normalized_spectrum

\* C22: every pixel of every phase visualization, baseline and display, has
\* an HSV value of at least 1.
C22_PhaseValueAtLeastOne ==
    /\ phase_vis # None =>
         \A c \in Channels, p \in Pixels : ValueOf(phase_vis[c][p]) >= 1
    /\ display_phase_vis # None =>
         \A c \in Channels, p \in Pixels : ValueOf(display_phase_vis[c][p]) >= 1

\* a magnitude commit zeroed an entry and its phase display shows value 1
C22_Witness ==
    /\ MagCommitted
    /\ \E p \in Pixels, c \in Channels :
          /\ op.before.frequency_image[p][c].nz
          /\ ~frequency_image[p][c].nz
          /\ ValueOf(display_phase_vis[c][p]) = 1

\* C28: after a filter every entry is exactly zero or has the phase it had
\* and a magnitude not greater than it had, and the radial and the Gaussian
\* filter leave the entries of the centre pixel as they were; a spectrum
\* with nothing but the centre is left whole, with its reconstruction, by a
\* Gaussian filter of fraction 1.0.
C28_FiltersOnlyLower ==
    (FilterApplied /\ op.before.frequency_image # None) =>
        /\ \A p \in Pixels, c \in Channels :
             \/ ~frequency_image[p][c].nz
             \/ /\ op.before.frequency_image[p][c].nz
                /\ AngleOf(frequency_image[p][c]) = AngleOf(op.before.frequency_image[p][c])
                /\ LogMagOf(frequency_image[p][c]) <= LogMagOf(op.before.frequency_image[p][c])
        /\ (RadialApplied \/ GaussianApplied) =>
             frequency_image[<<Height \div 2, Width \div 2>>] =
                op.before.frequency_image[<<Height \div 2, Width \div 2>>]
        /\ (GaussianApplied /\ op.arg = 1000
            /\ \A p \in Pixels \ {<<Height \div 2, Width \div 2>>}, c \in Channels :
                  ~op.before.frequency_image[p][c].nz) =>
             /\ frequency_image = op.before.frequency_image
             /\ resulting_spatial_image = [inverse_of |-> op.before.frequency_image]

\* a Gaussian filter lowered an entry with a negative real part
C28_Witness ==
    /\ GaussianApplied
    /\ \E p \in Pixels, c \in Channels :
          /\ op.before.frequency_image[p][c].nz
          /\ AngleOf(op.before.frequency_image[p][c]) = FullTurn
          /\ frequency_image[p][c].nz
          /\ LogMagOf(frequency_image[p][c]) < LogMagOf(op.before.frequency_image[p][c])

\* hue and saturation a BGR pixel decodes to
HueSatOf(bgr) == <<BGR2HSV(bgr)[1], BGR2HSV(bgr)[2]>>

\* C23: a magnitude-edit commit changes only the value component of the
\* phase displays: every pixel of every phase display decodes to the hue and
\* the saturation it decoded to before the commit.
C23_CommitKeepsHueAndSaturation ==
    (MagCommitted /\ ~Faulted) =>
        \A c \in Channels, p \in Pixels :
            HueSatOf(display_phase_vis[c][p]) = HueSatOf(op.before.display_phase_vis[c][p])

\* C26: finalizing a magnitude or phase stroke that painted no new values
\* leaves the spectrum and the reconstruction as they were.
C26_EmptyStrokeIsNoOp ==
    ((MagCommitted \/ PhaseCommitted) /\ ~Faulted /\ op.painted = {}) =>
        /\ frequency_image = op.before.frequency_image
        /\ resulting_spatial_image = op.before.resulting_spatial_image

\* the pixel of the DC entries after fftshift
CentrePixel == <<Height \div 2, Width \div 2>>

\* the last handler loaded the solid grey image
SolidGrayLoaded == Loaded /\ ~Faulted /\ op.arg = FileSolid

MagnitudePaintStep ==
    /\ op'.name \in {"pointDrawn", "lineDrawn", "circleDrawn"}
    /\ op'.canvas = "freq"
    /\ display_normalized_spectrum # None

\* C27: display channel k (RGB order) goes with spectrum channel 2 - k and
\* with the lock of index 2 - k: a rebuilt visualization encodes channel k
\* from spectrum channel 2 - k; a paint event leaves channel k of every pixel
\* as it was while lock 2 - k is set and gives it the pen's component k (0
\* for the black pen) at the painted pixels otherwise; a commit changes
\* spectrum channel c only while lock c is clear, and only to the value
\* decoded from display channel 2 - c.
C27_ChannelOrder ==
    [][ /\ Rebuilt' =>
            \A p \in Pixels, k \in Channels :
                normalized_spectrum'[p][k] =
                    normalize_for_display(LogMagOf(frequency_image'[p][2 - k]),
                                          global_log_mag_range'[1], global_log_mag_range'[2])
        /\ MagnitudePaintStep =>
            \A p \in Pixels, k \in Channels :
                display_normalized_spectrum'[p][k] =
                    IF lock[2 - k] \/ p \notin op'.painted
                    THEN display_normalized_spectrum[p][k]
                    ELSE IF op'.pen_color = PenBlackColor THEN 0
                    ELSE <<op'.pen_color.r, op'.pen_color.g, op'.pen_color.b>>[k + 1]
        /\ (MagCommitted' /\ ~Faulted') =>
            \A p \in Pixels, c \in Channels :
                frequency_image'[p][c] # frequency_image[p][c] =>
                    /\ ~lock[c]
                    /\ frequency_image'[p][c] \in
                         {ComplexZero,
                          Polar(target_log_mag(display_normalized_spectrum[p][2 - c],
                                               global_log_mag_range),
                                AngleOf(frequency_image[p][c]))}
      ]_vars

\* the orange pen painted a pixel of the magnitude display under the red lock
\* alone: its red channel kept a value that is not the pen's, its blue channel
\* took the pen's
C27_Witness ==
    /\ PaintEvent
    /\ op.canvas = "freq"
    /\ op.pen_color = PenOrangeColor
    /\ lock[2] /\ ~lock[0] /\ ~lock[1]
    /\ \E p \in op.painted :
          /\ display_normalized_spectrum[p][0] # PenOrangeColor.r
          /\ display_normalized_spectrum[p][0] = normalized_spectrum[p][0]
          /\ display_normalized_spectrum[p][2] = PenOrangeColor.b
          /\ display_normalized_spectrum[p][2] # normalized_spectrum[p][2]

-----------------------------------------------------------------------------
(* The transforms on exact numbers: for images of at most 2 x 2 pixels every
   root of unity of the DFT is 1 or -1, so every coefficient is an integer
   (imaginary part 0) and every inverse sample a fraction num / den *)

FloatResolution == 1000
RoundTripSamples == {0, 128, 255}
RoundTripShapes == {<<1, 1>>, <<1, 2>>}

PixelsOf(shape) == {<<r, c>> : r \in 0 .. shape[1] - 1, c \in 0 .. shape[2] - 1}

\* the 3-channel 8-bit images given to the round trip
RoundTripImages ==
    UNION {[PixelsOf(shape) -> [Channels -> RoundTripSamples]] : shape \in RoundTripShapes}

\* height, width = array.shape
ShapeOf(array) ==
    <<1 + SetMax({p[1] : p \in DOMAIN array}), 1 + SetMax({p[2] : p \in DOMAIN array})>>

\* array[:, :, c]
ChannelOf(array, c) == [p \in DOMAIN array |-> array[p][c]]

\* exp(-2 pi i k / 2)
Sign(k) == IF k % 2 = 0 THEN 1 ELSE -1

RECURSIVE SumOver(_, _)
SumOver(f, S) ==
    IF S = {} THEN 0
    ELSE LET x == CHOOSE x \in S : TRUE
         IN  f[x] + SumOver(f, S \ {x})

\* np.fft.fft2
fft2(channel) ==
    [q \in DOMAIN channel |->
        SumOver([p \in DOMAIN channel |-> channel[p] * Sign(q[1] * p[1] + q[2] * p[2])],
                DOMAIN channel)]

\* np.fft.fftshift: every axis rolled by n // 2
fftshift(channel) ==
    LET shape == ShapeOf(channel)
    IN  [q \in DOMAIN channel |->
            channel[<<(q[1] + shape[1] - shape[1] \div 2) % shape[1],
                      (q[2] + shape[2] - shape[2] \div 2) % shape[2]>>]]

\* np.fft.ifftshift: every axis rolled by -(n // 2)
ifftshift(channel) ==
    LET shape == ShapeOf(channel)
    IN  [q \in DOMAIN channel |->
            channel[<<(q[1] + shape[1] \div 2) % shape[1],
                      (q[2] + shape[2] \div 2) % shape[2]>>]]

\* variant: the inverse sum is not divided by the number of pixels
ifft2_unnormalized(channel) ==
    [p \in DOMAIN channel |->
        [num |-> SumOver([q \in DOMAIN channel |-> channel[q] * Sign(q[1] * p[1] + q[2] * p[2])],
                         DOMAIN channel),
         den |-> 1]]

\* np.fft.ifft2
ifft2(channel) ==
    [p \in DOMAIN channel |->
        [num |-> SumOver([q \in DOMAIN channel |-> channel[q] * Sign(q[1] * p[1] + q[2] * p[2])],
                         DOMAIN channel),
         den |-> ShapeOf(channel)[1] * ShapeOf(channel)[2]]]

\* the shifted spectrum compute_frequency_domain stores, on exact numbers
ExactSpectrum(img) ==
    [p \in DOMAIN img |-> [c \in Channels |-> fftshift(fft2(ChannelOf(img, c)))[p]]]

\* the rounding error of the floating-point transforms, in units of
\* 1 / FloatResolution: the double nearest the exact sample, or one next to it
RoundingErrors == {-1, 0, 1}

\* inverse_transform on exact numbers: np.abs of the inverse transform, with
\* the rounding error err of the floating-point sum, clipped to 0 .. 255 and
\* truncated by astype(np.uint8)
ExactInverse(freq, err) ==
    [p \in DOMAIN freq |-> [c \in Channels |->
        LET x == ifft2(ifftshift(ChannelOf(freq, c)))[p]
            img_back_float == Abs((x.num * FloatResolution) \div x.den + err[p][c])
            clipped == Max2(0, Min2(MaxVal * FloatResolution, img_back_float))
        IN  clipped \div FloatResolution]]

\* an image is given to the forward transform and its spectrum, unedited, to
\* the inverse transform
round_trip(err) ==
    /\ resulting_spatial_image = None
    /\ resulting_spatial_image' = ExactInverse(ExactSpectrum(current_spatial_image), err)
    /\ op' = [Did("round_trip") EXCEPT !.before = None]
    /\ UNCHANGED <<current_spatial_image, frequency_image, magnitude_spectrum,
                   global_log_mag_range, normalized_spectrum, phase_vis,
                   display_normalized_spectrum, display_phase_vis, lock, drawing_enabled, stroke,
                   status, canvas_image, tools_enabled, budget>>

InitRoundTrip ==
    /\ current_spatial_image \in RoundTripImages
    /\ resulting_spatial_image = None
    /\ frequency_image = None
    /\ magnitude_spectrum = None
    /\ global_log_mag_range = <<0, LogOne>>
    /\ normalized_spectrum = None
    /\ phase_vis = None
    /\ display_normalized_spectrum = None
    /\ display_phase_vis = None
    /\ lock = [c \in Channels |-> FALSE]
    /\ stroke = NoStroke
    /\ status = "Load a color image to begin."
    /\ canvas_image = FALSE
    /\ tools_enabled = FALSE
    /\ drawing_enabled = FALSE
    /\ op = [Did("init") EXCEPT !.before = None]
    /\ budget = MaxOps

NextRoundTrip ==
    \E err \in [DOMAIN current_spatial_image -> [Channels -> RoundingErrors]] :
        round_trip(err)

SpecRoundTrip == InitRoundTrip /\ [][NextRoundTrip]_vars

RoundTripDone == op.name = "round_trip"

\* C25: the inverse transform of the unedited forward transform of a
\* 3-channel 8-bit image, a one-pixel or a solid-colour image included,
\* equals the image within 1 per sample; the spectrum a load publishes for an
\* image is the polar form of this forward transform.
C25_RoundTripWithinOne ==
    RoundTripDone =>
        /\ DOMAIN resulting_spatial_image = DOMAIN current_spatial_image
        /\ \A p \in DOMAIN current_spatial_image, c \in Channels :
             Abs(resulting_spatial_image[p][c] - current_spatial_image[p][c]) <= 1
        /\ ShapeOf(current_spatial_image) = Shape =>
             \A p \in Pixels, c \in Channels :
                ForwardTransform(current_spatial_image)[p][c] =
                    RealValue(ExactSpectrum(current_spatial_image)[p][c])

\* the round trip of a solid-colour image of two pixels gave back one sample
\* as it was and one sample less by 1
C25_Witness ==
    /\ RoundTripDone
    /\ ShapeOf(current_spatial_image) = <<1, 2>>
    /\ \A p \in DOMAIN current_spatial_image, c \in Channels :
          current_spatial_image[p][c] = 128
    /\ resulting_spatial_image[<<0, 0>>][0] = 127
    /\ resulting_spatial_image[<<0, 1>>][0] = 128

-----------------------------------------------------------------------------
(* Thickness-1 lines between arbitrary end points *)

LineMargin == 2
LineCoordMax == 3

\* the end points <<y, x>> given to a line event, inside and outside the image
LinePoints == (0 - LineMargin .. LineCoordMax) \X (0 - LineMargin .. LineCoordMax)

\* handle_spatial_line_drawn / handle_freq_line_drawn / _handle_phase_line_drawn
\* with thickness 1, on the image a load has just shown; the line event is
\* the last operation within the bound
thin_line_drawn(canvas, p1, p2, color) ==
    /\ op.name = "load_image"
    /\ canvas_image
    /\ budget' = 0
    /\ handle_drawn(canvas, ThinLinePixels(p1, p2), color)
    /\ op' = [Did("thin_line_drawn") EXCEPT !.canvas = canvas, !.pen_color = color,
                                             !.painted = ThinLinePixels(p1, p2),
                                             !.arg = <<p1, p2>>]
    /\ UNCHANGED <<lock, drawing_enabled, stroke, status, canvas_image, tools_enabled>>

NextLines ==
    \/ \E file \in ColorFiles : load_image(file, "none")
    \/ \E canvas \in Canvases \cup {"spatial"}, p1 \in LinePoints, p2 \in LinePoints,
          color \in Pens :
          thin_line_drawn(canvas, p1, p2, color)

SpecLines == Init /\ [][NextLines]_vars

\* a thickness-1 line event between two recorded end points
ThinLineDrawn == op.name = "thin_line_drawn"

\* C30: bresenham_line ends for all end points, yields
\* max(|x1 - x0|, |y1 - y0|) + 1 points, the first (x0, y0) and the last
\* (x1, y1), every two consecutive points differing by at most 1 in x and in
\* y; a thickness-1 paint handler writes no pixel but the yielded points
\* inside the image.
C30_BresenhamLine ==
    ThinLineDrawn =>
        LET x0 == op.arg[1][2]
            y0 == op.arg[1][1]
            x1 == op.arg[2][2]
            y1 == op.arg[2][1]
            line == bresenham_line(x0, y0, x1, y1)
            yielded == {<<line[i][2], line[i][1]>> : i \in 1 .. Len(line)}
        IN  /\ Len(line) = Max2(Abs(x1 - x0), Abs(y1 - y0)) + 1
            /\ line[1] = <<x0, y0>>
            /\ line[Len(line)] = <<x1, y1>>
            /\ \A i \in 1 .. Len(line) - 1 :
                  /\ Abs(line[i + 1][1] - line[i][1]) <= 1
                  /\ Abs(line[i + 1][2] - line[i][2]) <= 1
                  /\ line[i + 1] # line[i]
            /\ op.painted = yielded \cap Pixels
            /\ \A p \in Pixels \ yielded :
                  /\ current_spatial_image[p] = op.before.current_spatial_image[p]
                  /\ display_normalized_spectrum[p] = op.before.display_normalized_spectrum[p]
                  /\ \A c \in Channels :
                        display_phase_vis[c][p] = op.before.display_phase_vis[c][p]
            /\ op.canvas = "spatial" =>
                  \A p \in yielded \cap Pixels :
                        current_spatial_image[p] = bgr_color(op.pen_color)

\* a line from outside the image, steeper than it is wide, that crosses one
\* pixel of the image and changes it, and no other
C30_Witness ==
    /\ ThinLineDrawn
    /\ op.canvas = "spatial"
    /\ op.arg = << <<-2, 0>>, <<3, 1>> >>
    /\ op.painted = {<<0, 0>>}
    /\ current_spatial_image[<<0, 0>>] # op.before.current_spatial_image[<<0, 0>>]
    /\ current_spatial_image[<<0, 1>>] = op.before.current_spatial_image[<<0, 1>>]

-----------------------------------------------------------------------------
(* The canvases and the pencil *)

\* the five canvases that allow drawing and the result canvas
AllCanvases == Canvases \cup {"spatial", "result"}

\* toggle_drawing_mode: the pencil action, enabled once an image is loaded,
\* sets drawing_enabled of every canvas that allows drawing
toggle_drawing_mode(checked) ==
    /\ stroke = NoStroke
    /\ tools_enabled
    /\ drawing_enabled' = checked
    /\ op' = [Did("toggle_drawing_mode") EXCEPT !.before = None]
    /\ UNCHANGED <<current_spatial_image, resulting_spatial_image, frequency_image,
                   magnitude_spectrum, global_log_mag_range, normalized_spectrum,
                   phase_vis, display_normalized_spectrum, display_phase_vis, lock,
                   stroke, status, canvas_image, tools_enabled, budget>>

NextCanvas ==
    \/ \E file \in Files, fault \in {"none", "fft"} : load_image(file, fault)
    \/ toggle_drawing_mode(~drawing_enabled)
    \/ \E canvas \in AllCanvases, image_pos \in PaintPoints,
          effective_pen_width \in Thicknesses, color \in Pens :
          mousePressEvent(canvas, image_pos, effective_pen_width, color)
    \/ \E current_image_pos \in PaintPoints, thickness \in Thicknesses :
          mouseMoveEvent(current_image_pos, thickness)
    \/ mouseReleaseEvent("none")

SpecCanvas == Init /\ [][NextCanvas]_vars

PressEvents == {"pointDrawn", "circleDrawn"}
FinishedEvents == {"spatial_drawing_finished", "freq_drawing_finished",
                   "phase_drawing_finished"}

\* C29: a stroke is a press that emits one point or circle event, line events
\* while it lasts and one drawingFinished event at the release that ends it:
\* a point or circle event only starts a stroke, a line event only occurs
\* within one, a drawingFinished event only ends one, and nothing else starts,
\* continues or ends a stroke; every such event comes from a canvas other
\* than the result canvas, while drawing is enabled and an image is set.
C29_OneReconciliationPerStroke ==
    [][ /\ op'.name \in PressEvents <=> (stroke = NoStroke /\ stroke' # NoStroke)
        /\ op'.name = "lineDrawn" <=>
              (stroke # NoStroke /\ stroke' # NoStroke /\ stroke' # stroke)
        /\ op'.name \in FinishedEvents <=> (stroke # NoStroke /\ stroke' = NoStroke)
        /\ stroke # NoStroke => op'.name \in FinishedEvents \cup {"lineDrawn"}
        /\ (stroke # NoStroke /\ stroke' # NoStroke) => stroke'.canvas = stroke.canvas
        /\ op'.name \in PressEvents \cup FinishedEvents \cup {"lineDrawn"} =>
              /\ drawing_enabled
              /\ canvas_image
              /\ op'.canvas \in AllCanvases \ {"result"}
              /\ op'.canvas = IF stroke = NoStroke THEN stroke'.canvas ELSE stroke.canvas
      ]_vars

\* a stroke on the spatial canvas that painted both pixels is finished, after
\* the pencil was switched off and on again
C29_Witness ==
    /\ op.name = "spatial_drawing_finished"
    /\ op.painted = Pixels
    /\ stroke = NoStroke
    /\ drawing_enabled
    /\ budget < MaxOps

====
